---- MODULE Spec2Model ----
(***************************************************************************)
(* Model of the crisis-signal / risk-scoring pipeline of streamlit_app.py: *)
(* fetch_market_data (memoized by st.cache_data), detect_crisis_signals,   *)
(* calculate_risk_score and analyze_portfolio.                             *)
(*                                                                         *)
(* Numbers are exact decimals in fixed point.  price_change_percent and    *)
(* volatility_percent are rounded to 2 decimals by the fetch (line 36), so *)
(* they are integers counting hundredths of a percent (25.00% = 2500).     *)
(* A risk score is signal_count*25 + volatility/10, which has 3 decimals,  *)
(* so risk scores and total_risk are integers counting thousandths         *)
(* (77.5 = 77500).  The reported portfolio_risk is rounded to 2 decimals   *)
(* and counts hundredths (39.25 = 3925).  The data source yields finite    *)
(* numbers with volatility >= 0, as the data model of the summary says.    *)
(* Strings that the code strips are sequences of characters.               *)
(***************************************************************************)
EXTENDS Integers, Sequences, FiniteSets, TLC

VARIABLES
    USE_REAL_DATA,      \* line 9-13: whether yfinance could be imported
    cache,              \* st.cache_data store of fetch_market_data: key -> returned dict
    firstRet,           \* history: key -> the value the first fetch of that key returned
    sourceCalls,        \* history: key -> number of times the function body ran for it
    market_data,        \* Single Asset Analysis page: the last fetch (line 155), its
                        \* arguments, the value it returned and whether it was a cache hit
    md_in,              \* unit call: argument of detect_crisis_signals
    sc_in,              \* unit call: signal_count argument of calculate_risk_score
    vol_in,             \* unit call: volatility argument of calculate_risk_score
    signals_out,        \* unit call: value returned by detect_crisis_signals
    risk_out,           \* unit call: value returned by calculate_risk_score
    symbols,            \* analyze_portfolio: the argument list
    idx,                \* analyze_portfolio: position of the for loop (1-based)
    portfolio_data,     \* analyze_portfolio: local list of entries
    total_risk,         \* analyze_portfolio: local accumulator
    high_risk_assets,   \* analyze_portfolio: local counter
    crisis_alerts,      \* analyze_portfolio: local counter
    result,             \* analyze_portfolio: returned value
    pc                  \* analyze_portfolio: "idle" or "loop"

vars == <<USE_REAL_DATA, cache, firstRet, sourceCalls, market_data,
          md_in, sc_in, vol_in, signals_out, risk_out,
          symbols, idx, portfolio_data, total_risk, high_risk_assets,
          crisis_alerts, result, pc>>

fetchVars == <<cache, firstRet, sourceCalls>>
unitVars == <<md_in, sc_in, vol_in, signals_out, risk_out>>
portfolioVars == <<symbols, idx, portfolio_data, total_risk, high_risk_assets,
                   crisis_alerts, result, pc>>

\* Bounds of the model.
MaxSymbols == 3
MaxSignalCount == 5

\* A value that stands for "nothing yet" in a variable.
None == [none |-> TRUE]

----------------------------------------------------------------------------
\* Strings and str.strip()

AAPL == <<"A", "A", "P", "L">>
SPY == <<"S", "P", "Y">>
MSFT == <<"M", "S", "F", "T">>
SPY_padded == <<" ", "S", "P", "Y", " ">>

Whitespace == {" ", "\t", "\n"}

Str(s) == [type |-> "str", val |-> s]
NotAStr == [type |-> "NoneType", val |-> <<>>]

RECURSIVE lstrip(_)
lstrip(s) ==
    IF s # <<>> /\ Head(s) \in Whitespace THEN lstrip(Tail(s)) ELSE s

RECURSIVE rstrip(_)
rstrip(s) ==
    IF s # <<>> /\ s[Len(s)] \in Whitespace
    THEN rstrip(SubSeq(s, 1, Len(s) - 1)) ELSE s

\* symbol.strip() (line 83); it raises AttributeError on a non-string.
strip(s) == rstrip(lstrip(s))
StripRaises(x) == x.type # "str"

----------------------------------------------------------------------------
\* fetch_market_data and its memoization

Error(msg) == [error |-> msg]
IsError(d) == "error" \in DOMAIN d

MOCK_DATA ==
    (AAPL :> [price_change_percent |-> 215, volatility_percent |-> 1580]) @@
    (SPY :> [price_change_percent |-> 182, volatility_percent |-> 1230]) @@
    (MSFT :> [price_change_percent |-> 345, volatility_percent |-> 1820])

\* What the data source can answer to ticker.history(period): an empty
\* frame, an exception, or a series, given by the two statistics the
\* pipeline reads from it.
Series(chg, vol) == [kind |-> "series", price_change_percent |-> chg, volatility_percent |-> vol]
SourceOutcomes ==
    { [kind |-> "empty"], [kind |-> "raises"],
      Series(-600, 2500), Series(100, 1000), Series(100, 4996), Series(-600, 0) }

\* The body of fetch_market_data (lines 26-45), run on a cache miss.
fetch_body(symbol, period, real, src) ==
    IF real
    THEN CASE src.kind = "empty" -> Error("No data found")
           [] src.kind = "raises" -> Error("exception")
           [] OTHER -> [symbol |-> symbol,
                        price_change_percent |-> src.price_change_percent,
                        volatility_percent |-> src.volatility_percent,
                        mode |-> "REAL"]
    ELSE IF symbol \in DOMAIN MOCK_DATA
         THEN [symbol |-> symbol,
               price_change_percent |-> MOCK_DATA[symbol].price_change_percent,
               volatility_percent |-> MOCK_DATA[symbol].volatility_percent,
               mode |-> "DEMO"]
         ELSE Error("Try: AAPL, SPY, MSFT, BTC-USD, TCS.NS, INFY.NS")

\* A bug variant of the memoized call: the body runs on every call.
fetch_market_data_uncached(c, calls, symbol, period, real, src) ==
    LET key == <<symbol, period>>
        ret == fetch_body(symbol, period, real, src)
        n == IF key \in DOMAIN calls THEN calls[key] ELSE 0
    IN  [ret |-> ret,
         cache |-> [k \in DOMAIN c \cup {key} |-> IF k = key THEN ret ELSE c[k]],
         calls |-> [k \in DOMAIN calls \cup {key} |-> IF k = key THEN n + 1 ELSE calls[k]]]

\* @st.cache_data def fetch_market_data(symbol, period) (lines 24-25): a call
\* whose arguments are in the store returns the stored value and the body is
\* not run; otherwise the body runs and its return value is stored.
fetch_market_data(c, calls, symbol, period, real, src) ==
    LET key == <<symbol, period>>
    IN  IF key \in DOMAIN c
        THEN [ret |-> c[key], cache |-> c, calls |-> calls]
        ELSE LET ret == fetch_body(symbol, period, real, src)
             IN  [ret |-> ret,
                  cache |-> [k \in DOMAIN c \cup {key} |-> IF k = key THEN ret ELSE c[k]],
                  calls |-> [k \in DOMAIN calls \cup {key} |-> IF k = key THEN 1 ELSE calls[k]]]

\* History of first returns, kept beside every fetch.
RecordFirst(first, key, ret) ==
    IF key \in DOMAIN first THEN first
    ELSE [k \in DOMAIN first \cup {key} |-> IF k = key THEN ret ELSE first[k]]

\* Inputs of the Single Asset Analysis page (lines 150-152).
AssetSymbols == {AAPL, SPY_padded}
Timeframes == {"30d", "90d"}

\* Single Asset Analysis, "Run Analysis" (lines 153-155).
SingleAssetAnalysis ==
    \E symbol \in AssetSymbols, timeframe \in Timeframes, src \in SourceOutcomes :
        LET f == fetch_market_data(cache, sourceCalls, symbol, timeframe, USE_REAL_DATA, src)
        IN  /\ market_data' = [key |-> <<symbol, timeframe>>, value |-> f.ret,
                                hit |-> <<symbol, timeframe>> \in DOMAIN cache]
            /\ cache' = f.cache
            /\ sourceCalls' = f.calls
            /\ firstRet' = RecordFirst(firstRet, <<symbol, timeframe>>, f.ret)
            /\ UNCHANGED <<USE_REAL_DATA, unitVars, portfolioVars>>

InitUnused ==
    /\ md_in = None /\ sc_in = 0 /\ vol_in = 0
    /\ signals_out = None /\ risk_out = None

InitPortfolio ==
    /\ symbols = <<>> /\ idx = 1 /\ portfolio_data = <<>>
    /\ total_risk = 0 /\ high_risk_assets = 0 /\ crisis_alerts = 0
    /\ result = None /\ pc = "idle"

InitProcess ==
    /\ USE_REAL_DATA \in BOOLEAN
    /\ cache = <<>> /\ firstRet = <<>> /\ sourceCalls = <<>>
    /\ market_data = None

InitFetch == InitProcess /\ InitUnused /\ InitPortfolio
NextFetch == SingleAssetAnalysis
SpecFetch == InitFetch /\ [][NextFetch]_vars

\* C7: every fetch of a (symbol, period) pair returns what the first fetch of
\* that pair returned, the body (the call to the data source) runs at most
\* once per pair, and a stored entry always equals that first return, so it
\* is never changed or removed.
FetchIdempotent ==
    /\ DOMAIN cache = DOMAIN firstRet
    /\ \A k \in DOMAIN firstRet : cache[k] = firstRet[k]
    /\ \A k \in DOMAIN sourceCalls : sourceCalls[k] <= 1
    /\ market_data # None => market_data.value = firstRet[market_data.key]

FetchRepeated ==
    /\ market_data # None /\ market_data.hit
    /\ IsError(market_data.value)
    /\ Cardinality(DOMAIN cache) >= 2

----------------------------------------------------------------------------
\* detect_crisis_signals and calculate_risk_score

HIGH_VOLATILITY == "HIGH VOLATILITY (>20%)"
SHARP_DECLINE == "SHARP DECLINE (>5%)"
NEGATIVE_MOMENTUM == "NEGATIVE MOMENTUM (<-2%)"

Min(a, b) == IF a < b THEN a ELSE b

\* A bug variant: the momentum test is an elif of the decline test.
detect_crisis_signals_elif(md) ==
    IF IsError(md) THEN Error(md.error)
    ELSE LET s1 == IF md.volatility_percent > 2000 THEN <<HIGH_VOLATILITY>> ELSE <<>>
             s2 == IF md.price_change_percent < -500 THEN Append(s1, SHARP_DECLINE)
                   ELSE IF md.price_change_percent < -200 THEN Append(s1, NEGATIVE_MOMENTUM)
                   ELSE s1
         IN  [signals |-> s2, signal_count |-> Len(s2)]

\* detect_crisis_signals (lines 47-61).  signal_details, a list parallel to
\* signals that only the page displays, is left out.
detect_crisis_signals(md) ==
    IF IsError(md) THEN Error(md.error)
    ELSE LET s1 == IF md.volatility_percent > 2000 THEN <<HIGH_VOLATILITY>> ELSE <<>>
             s2 == IF md.price_change_percent < -500 THEN Append(s1, SHARP_DECLINE) ELSE s1
             s3 == IF md.price_change_percent < -200 THEN Append(s2, NEGATIVE_MOMENTUM) ELSE s2
         IN  [signals |-> s3, signal_count |-> Len(s3)]

\* The record returned for a final score (lines 67-74); the recommendation
\* and color strings are fixed per classification.
Classified(risk_score, classification) ==
    [risk_score |-> risk_score, classification |-> classification]

\* A bug variant: the first breakpoint is closed on the right (<= 30).
calculate_risk_score_le30(signal_count, volatility) ==
    LET base_score == Min(signal_count * 25000, 100000)
        volatility_factor == (volatility * 10 * 1000) \div (100 * 100)
        risk_score == Min(base_score + volatility_factor, 100000)
    IN  IF risk_score <= 30000 THEN Classified(risk_score, "LOW")
        ELSE IF risk_score < 50000 THEN Classified(risk_score, "MODERATE")
        ELSE IF risk_score < 70000 THEN Classified(risk_score, "HIGH")
        ELSE Classified(risk_score, "CRITICAL")

\* A bug variant: the sum is not clamped again after the volatility is added.
calculate_risk_score_noclamp(signal_count, volatility) ==
    LET base_score == Min(signal_count * 25000, 100000)
        volatility_factor == (volatility * 10 * 1000) \div (100 * 100)
        risk_score == base_score + volatility_factor
    IN  IF risk_score < 30000 THEN Classified(risk_score, "LOW")
        ELSE IF risk_score < 50000 THEN Classified(risk_score, "MODERATE")
        ELSE IF risk_score < 70000 THEN Classified(risk_score, "HIGH")
        ELSE Classified(risk_score, "CRITICAL")

\* A bug variant: the volatility is not divided by 100 before the factor 10.
calculate_risk_score_nodiv(signal_count, volatility) ==
    LET base_score == Min(signal_count * 25000, 100000)
        volatility_factor == (volatility * 10 * 1000) \div 100
        risk_score == Min(base_score + volatility_factor, 100000)
    IN  IF risk_score < 30000 THEN Classified(risk_score, "LOW")
        ELSE IF risk_score < 50000 THEN Classified(risk_score, "MODERATE")
        ELSE IF risk_score < 70000 THEN Classified(risk_score, "HIGH")
        ELSE Classified(risk_score, "CRITICAL")

\* calculate_risk_score (lines 63-74).  volatility counts hundredths of a
\* percent and the scores count thousandths, so (volatility / 100) * 10 is
\* volatility * 10 * 1000 / (100 * 100), an exact division.
calculate_risk_score(signal_count, volatility) ==
    LET base_score == Min(signal_count * 25000, 100000)
        volatility_factor == (volatility * 10 * 1000) \div (100 * 100)
        risk_score == Min(base_score + volatility_factor, 100000)
    IN  IF risk_score < 30000 THEN Classified(risk_score, "LOW")
        ELSE IF risk_score < 50000 THEN Classified(risk_score, "MODERATE")
        ELSE IF risk_score < 70000 THEN Classified(risk_score, "HIGH")
        ELSE Classified(risk_score, "CRITICAL")

\* Arguments of the unit calls.
UnitChanges == {-600, -501, -500, -499, -201, -200, -199, 0, 100}
UnitSummaryVolatilities == {0, 2000, 2001, 2500}
UnitVolatilities ==
    {0, 1000, 2000, 2001, 4999, 5000, 5001, 20000, 24999, 25000, 44999,
     45000, 45001, 100000, 120000}
UnitSummaries ==
    { [symbol |-> AAPL, price_change_percent |-> c, volatility_percent |-> v, mode |-> "REAL"] :
        c \in UnitChanges, v \in UnitSummaryVolatilities }

DetectCall ==
    /\ signals_out = None
    /\ signals_out' = detect_crisis_signals(md_in)
    /\ UNCHANGED <<USE_REAL_DATA, fetchVars, market_data, md_in, sc_in, vol_in,
                   risk_out, portfolioVars>>

ScoreCall ==
    /\ risk_out = None
    /\ risk_out' = calculate_risk_score(sc_in, vol_in)
    /\ UNCHANGED <<USE_REAL_DATA, fetchVars, market_data, md_in, sc_in, vol_in,
                   signals_out, portfolioVars>>

InitUnit ==
    /\ InitProcess /\ InitPortfolio
    /\ md_in \in UnitSummaries \cup {Error("No data found")}
    /\ sc_in \in 0..MaxSignalCount
    /\ vol_in \in UnitVolatilities
    /\ signals_out = None /\ risk_out = None

NextUnit == DetectCall \/ ScoreCall
SpecUnit == InitUnit /\ [][NextUnit]_vars

\* C2: the classification is LOW iff score < 30, MODERATE iff 30 <= score < 50,
\* HIGH iff 50 <= score < 70 and CRITICAL iff score >= 70 (left-closed
\* intervals), and it is one of these four.
ClassificationIntervals ==
    risk_out # None =>
        LET s == risk_out.risk_score
            c == risk_out.classification
        IN  /\ c \in {"LOW", "MODERATE", "HIGH", "CRITICAL"}
            /\ (c = "LOW") <=> (s < 30000)
            /\ (c = "MODERATE") <=> (30000 <= s /\ s < 50000)
            /\ (c = "HIGH") <=> (50000 <= s /\ s < 70000)
            /\ (c = "CRITICAL") <=> (s >= 70000)

ScoreExactly30 ==
    /\ risk_out # None
    /\ risk_out.risk_score = 30000
    /\ risk_out.classification = "MODERATE"

\* C3: for signal_count >= 0 and volatility >= 0 the risk score is
\* min(signal_count*25 + volatility/10, 100), hence within [0, 100].
ScoreFormula ==
    risk_out # None =>
        /\ risk_out.risk_score = Min(sc_in * 25000 + vol_in, 100000)
        /\ 0 <= risk_out.risk_score /\ risk_out.risk_score <= 100000

ScoreInnerClampActive ==
    /\ risk_out # None
    /\ sc_in * 25 > 100 /\ vol_in > 0
    /\ risk_out.risk_score = 100000

\* The three signals in evaluation order.
SignalOrder == <<HIGH_VOLATILITY, SHARP_DECLINE, NEGATIVE_MOMENTUM>>

\* s is a duplicate-free subsequence of SignalOrder: its elements occur at
\* strictly increasing positions of SignalOrder.
IsOrderedSubsequence(s) ==
    \E pos \in [1..Len(s) -> 1..Len(SignalOrder)] :
        /\ \A i \in 1..Len(s) : SignalOrder[pos[i]] = s[i]
        /\ \A i \in 1..Len(s), j \in 1..Len(s) : i < j => pos[i] < pos[j]

\* C4: a change below -5% yields the sharp-decline signal immediately
\* followed by the negative-momentum signal (two signals in all when the
\* volatility is at most 20%); sharp decline never comes without negative
\* momentum; the list is a duplicate-free subsequence of the evaluation
\* order and signal_count is its length.
SignalLayering ==
    (signals_out # None /\ ~IsError(md_in)) =>
        LET s == signals_out.signals
        IN  /\ md_in.price_change_percent < -500 =>
                /\ \E i \in 1..(Len(s) - 1) :
                       s[i] = SHARP_DECLINE /\ s[i + 1] = NEGATIVE_MOMENTUM
                /\ md_in.volatility_percent <= 2000 => signals_out.signal_count = 2
            /\ (\E i \in 1..Len(s) : s[i] = SHARP_DECLINE) =>
                   (\E i \in 1..Len(s) : s[i] = NEGATIVE_MOMENTUM)
            /\ IsOrderedSubsequence(s)
            /\ signals_out.signal_count = Len(s)

DeclineOfSixPercent ==
    /\ signals_out # None /\ ~IsError(md_in)
    /\ md_in.price_change_percent = -600
    /\ md_in.volatility_percent <= 2000
    /\ signals_out.signals = <<SHARP_DECLINE, NEGATIVE_MOMENTUM>>

----------------------------------------------------------------------------
\* analyze_portfolio

\* Elements of the argument list: strings, one of them padded, and a value
\* that is not a string.
ListElements == {Str(AAPL), Str(SPY), Str(SPY_padded), Str(MSFT), NotAStr}

RECURSIVE SeqsUpTo(_)
SeqsUpTo(n) ==
    IF n = 0 THEN {<<>>}
    ELSE LET shorter == SeqsUpTo(n - 1)
         IN  shorter \cup {Append(l, e) : l \in {x \in shorter : Len(x) = n - 1}, e \in ListElements}

SymbolLists == SeqsUpTo(MaxSymbols)

\* A bug variant: the new entry is inserted at the front of the list.
append_entry_front(loc, symbol, md) ==
    LET signals == detect_crisis_signals(md)
        risk == calculate_risk_score(signals.signal_count, md.volatility_percent)
        entry == [symbol |-> symbol,
                  change |-> md.price_change_percent,
                  volatility |-> md.volatility_percent,
                  risk_score |-> risk.risk_score,
                  classification |-> risk.classification,
                  signals |-> signals.signal_count]
    IN  [portfolio_data |-> <<entry>> \o loc.portfolio_data,
         total_risk |-> loc.total_risk + risk.risk_score,
         high_risk_assets |-> loc.high_risk_assets + (IF risk.risk_score > 50000 THEN 1 ELSE 0),
         crisis_alerts |-> loc.crisis_alerts + (IF signals.signal_count > 0 THEN 1 ELSE 0)]

\* A bug variant: an asset counts as high-risk from a score of 50 on (>=).
append_entry_ge50(loc, symbol, md) ==
    LET signals == detect_crisis_signals(md)
        risk == calculate_risk_score(signals.signal_count, md.volatility_percent)
        entry == [symbol |-> symbol,
                  change |-> md.price_change_percent,
                  volatility |-> md.volatility_percent,
                  risk_score |-> risk.risk_score,
                  classification |-> risk.classification,
                  signals |-> signals.signal_count]
    IN  [portfolio_data |-> Append(loc.portfolio_data, entry),
         total_risk |-> loc.total_risk + risk.risk_score,
         high_risk_assets |-> loc.high_risk_assets + (IF risk.risk_score >= 50000 THEN 1 ELSE 0),
         crisis_alerts |-> loc.crisis_alerts + (IF signals.signal_count > 0 THEN 1 ELSE 0)]

\* Lines 85-92: the branch of the loop body taken for a summary.  loc holds
\* the four locals; the entry's price field, a copy of current_price that no
\* computation reads, is left out.
append_entry(loc, symbol, md) ==
    LET signals == detect_crisis_signals(md)
        risk == calculate_risk_score(signals.signal_count, md.volatility_percent)
        entry == [symbol |-> symbol,
                  change |-> md.price_change_percent,
                  volatility |-> md.volatility_percent,
                  risk_score |-> risk.risk_score,
                  classification |-> risk.classification,
                  signals |-> signals.signal_count]
    IN  [portfolio_data |-> Append(loc.portfolio_data, entry),
         total_risk |-> loc.total_risk + risk.risk_score,
         high_risk_assets |-> loc.high_risk_assets + (IF risk.risk_score > 50000 THEN 1 ELSE 0),
         crisis_alerts |-> loc.crisis_alerts + (IF signals.signal_count > 0 THEN 1 ELSE 0)]

\* round(avg, 2) for avg = total / n (line 98), in hundredths.  round()
\* rounds the binary float to the nearest 2-decimal value; where the exact
\* mean lies halfway between two of them the float may lie on either side,
\* so both neighbours are possible results.
round2(total, n) ==
    LET q == total \div (10 * n)
    IN  {r \in {q, q + 1} :
            2 * (IF 10 * n * r >= total THEN 10 * n * r - total ELSE total - 10 * n * r) <= 10 * n}

\* The recommendation of line 98, decided on avg_portfolio_risk = total / n.
Recommendation(total, n) ==
    IF total < 30000 * n THEN "Monitor"
    ELSE IF total < 50000 * n THEN "Review Quarterly"
    ELSE "Rebalance Immediately"

\* A bug variant: the check for an empty entry list is missing and the mean
\* of no entries is reported as 0.
analyze_return_nocheck(loc) ==
    LET n == Len(loc.portfolio_data)
    IN  { [portfolio_data |-> loc.portfolio_data,
           portfolio_risk |-> r,
           high_risk_assets |-> loc.high_risk_assets,
           crisis_alerts |-> loc.crisis_alerts,
           recommendation |-> Recommendation(loc.total_risk, n),
           total_assets |-> n] : r \in IF n = 0 THEN {0} ELSE round2(loc.total_risk, n) }

\* Lines 95-98: the values analyze_portfolio can return for its locals.
analyze_return(loc) ==
    LET n == Len(loc.portfolio_data)
    IN  IF loc.portfolio_data = <<>>
        THEN {Error("No valid symbols")}
        ELSE { [portfolio_data |-> loc.portfolio_data,
                portfolio_risk |-> r,
                high_risk_assets |-> loc.high_risk_assets,
                crisis_alerts |-> loc.crisis_alerts,
                recommendation |-> Recommendation(loc.total_risk, n),
                total_assets |-> n] : r \in round2(loc.total_risk, n) }

Locals ==
    [portfolio_data |-> portfolio_data, total_risk |-> total_risk,
     high_risk_assets |-> high_risk_assets, crisis_alerts |-> crisis_alerts]

\* "Analyze Portfolio" (lines 196-198) calls analyze_portfolio(symbols);
\* lines 77-80 initialise the locals.
Start ==
    /\ pc = "idle"
    /\ symbols' \in SymbolLists
    /\ idx' = 1
    /\ portfolio_data' = <<>>
    /\ total_risk' = 0 /\ high_risk_assets' = 0 /\ crisis_alerts' = 0
    /\ result' = None
    /\ pc' = "loop"
    /\ UNCHANGED <<USE_REAL_DATA, fetchVars, market_data, unitVars>>

\* One iteration of the for loop (lines 81-94).  An exception raised in the
\* try block (symbol.strip() on a non-string) is swallowed by "except: pass";
\* an error record from the fetch skips the if block.  The fetch is called
\* with the stripped symbol and the default period "30d".
Iterate ==
    /\ pc = "loop"
    /\ idx <= Len(symbols)
    /\ idx' = idx + 1
    /\ UNCHANGED <<USE_REAL_DATA, market_data, unitVars, symbols, result, pc>>
    /\ IF StripRaises(symbols[idx])
       THEN UNCHANGED <<fetchVars, portfolio_data, total_risk, high_risk_assets, crisis_alerts>>
       ELSE \E src \in SourceOutcomes :
            LET symbol == symbols[idx].val
                key == <<strip(symbol), "30d">>
                f == fetch_market_data(cache, sourceCalls, strip(symbol), "30d", USE_REAL_DATA, src)
                loc == IF IsError(f.ret) THEN Locals ELSE append_entry(Locals, symbol, f.ret)
            IN  /\ cache' = f.cache
                /\ sourceCalls' = f.calls
                /\ firstRet' = RecordFirst(firstRet, key, f.ret)
                /\ portfolio_data' = loc.portfolio_data
                /\ total_risk' = loc.total_risk
                /\ high_risk_assets' = loc.high_risk_assets
                /\ crisis_alerts' = loc.crisis_alerts

\* The loop is over: lines 95-98.
Return ==
    /\ pc = "loop"
    /\ idx > Len(symbols)
    /\ result' \in analyze_return(Locals)
    /\ pc' = "done"
    /\ UNCHANGED <<USE_REAL_DATA, fetchVars, market_data, unitVars, symbols, idx,
                   portfolio_data, total_risk, high_risk_assets, crisis_alerts>>

\* The page has shown the result; the script's locals are gone on the next
\* rerun, the cache stays.
Rerun ==
    /\ pc = "done"
    /\ symbols' = <<>> /\ idx' = 1 /\ portfolio_data' = <<>>
    /\ total_risk' = 0 /\ high_risk_assets' = 0 /\ crisis_alerts' = 0
    /\ result' = None /\ pc' = "idle"
    /\ UNCHANGED <<USE_REAL_DATA, fetchVars, market_data, unitVars>>

Init == InitProcess /\ InitUnused /\ InitPortfolio
Next == Start \/ Iterate \/ Return \/ Rerun
Spec == Init /\ [][Next]_vars

----------------------------------------------------------------------------
\* Properties of analyze_portfolio

\* The fetch of a list element succeeded: it is a string and the store holds
\* a summary for its stripped form.
Succeeded(c, x) ==
    /\ ~StripRaises(x)
    /\ <<strip(x.val), "30d">> \in DOMAIN c
    /\ ~IsError(c[<<strip(x.val), "30d">>])

SucceededNow(x) == Succeeded(cache, x)

RECURSIVE SumRisk(_)
SumRisk(entries) ==
    IF entries = <<>> THEN 0 ELSE Head(entries).risk_score + SumRisk(Tail(entries))

CountHighRisk(entries) ==
    Cardinality({i \in 1..Len(entries) : entries[i].risk_score > 50000})

CountAlerts(entries) ==
    Cardinality({i \in 1..Len(entries) : entries[i].signals > 0})

Returned == pc = "done"

\* C1: analyze_portfolio returns the error record "No valid symbols" when no
\* symbol was analyzed successfully (the empty list included), and a result
\* that is not an error has at least one entry and total_assets >= 1.
NeverEmptyPortfolio ==
    Returned =>
        /\ (\A i \in 1..Len(symbols) : ~SucceededNow(symbols[i])) =>
               result = Error("No valid symbols")
        /\ IsError(result) => result = Error("No valid symbols")
        /\ ~IsError(result) =>
               /\ Len(result.portfolio_data) >= 1
               /\ result.total_assets >= 1

AllSymbolsFailed ==
    /\ Returned
    /\ Len(symbols) >= 2
    /\ \E i \in 1..Len(symbols) : StripRaises(symbols[i])
    /\ \E i \in 1..Len(symbols) : ~StripRaises(symbols[i])
    /\ \A i \in 1..Len(symbols) : ~SucceededNow(symbols[i])
    /\ result = Error("No valid symbols")

\* A symbol whose fetch gives an error record or whose processing raises
\* contributes no entry and leaves the totals alone, the loop goes on to the
\* end of the list, and the entries are the successfully analyzed symbols,
\* one per occurrence, in input order.
EntriesAreSuccesses ==
    /\ pc \in {"loop", "done"} =>
           LET done == SelectSeq(SubSeq(symbols, 1, idx - 1), SucceededNow)
           IN  /\ Len(portfolio_data) = Len(done)
               /\ \A i \in 1..Len(done) : portfolio_data[i].symbol = done[i].val
    /\ Returned =>
           /\ idx = Len(symbols) + 1
           /\ ~IsError(result) => result.portfolio_data = portfolio_data

FailureLeavesTotals ==
    (pc = "loop" /\ idx' = idx + 1 /\ ~Succeeded(cache', symbols[idx])) =>
        UNCHANGED <<portfolio_data, total_risk, high_risk_assets, crisis_alerts>>

\* C5: the two parts above together: the entries are exactly the successes of
\* the processed prefix in input order, the loop reaches the end of the list,
\* and a step for a failing symbol leaves entries and totals unchanged.
SkipAndContinue == []EntriesAreSuccesses /\ [][FailureLeavesTotals]_vars

SkippedInTheMiddle ==
    /\ Returned
    /\ Len(symbols) = 3
    /\ SucceededNow(symbols[1]) /\ SucceededNow(symbols[3])
    /\ symbols[1] # symbols[3]
    /\ ~SucceededNow(symbols[2])
    /\ Len(portfolio_data) = 2

\* C6: at every point of the loop total_risk is the sum of the entries' risk
\* scores and high_risk_assets the number of entries with a score above 50;
\* the returned portfolio_risk is the mean of the entries' scores rounded to
\* 2 decimals and total_assets is the number of entries.
AggregatesAgree ==
    /\ total_risk = SumRisk(portfolio_data)
    /\ high_risk_assets = CountHighRisk(portfolio_data)
    /\ (Returned /\ ~IsError(result)) =>
           LET n == Len(result.portfolio_data)
               sum == SumRisk(result.portfolio_data)
               r == result.portfolio_risk
           IN  /\ result.total_assets = n
               /\ result.high_risk_assets = CountHighRisk(result.portfolio_data)
               /\ 10 * n * r - sum <= 5 * n
               /\ sum - 10 * n * r <= 5 * n

ScoreOfExactly50Counted ==
    /\ Returned /\ ~IsError(result)
    /\ Len(result.portfolio_data) = 2
    /\ \E i \in 1..2 : result.portfolio_data[i].risk_score = 50000
    /\ \E i \in 1..2 : result.portfolio_data[i].risk_score > 50000
    /\ result.high_risk_assets = 1

\* The example scenario: AAPL with volatility 25% and change -6%, SPY with
\* volatility 10% and change +1%, the MSFT fetch fails.
ExampleScenario ==
    /\ Returned
    /\ symbols = <<Str(AAPL), Str(SPY), Str(MSFT)>>
    /\ <<AAPL, "30d">> \in DOMAIN cache /\ ~IsError(cache[<<AAPL, "30d">>])
    /\ cache[<<AAPL, "30d">>].volatility_percent = 2500
    /\ cache[<<AAPL, "30d">>].price_change_percent = -600
    /\ <<SPY, "30d">> \in DOMAIN cache /\ ~IsError(cache[<<SPY, "30d">>])
    /\ cache[<<SPY, "30d">>].volatility_percent = 1000
    /\ cache[<<SPY, "30d">>].price_change_percent = 100
    /\ <<MSFT, "30d">> \in DOMAIN cache /\ IsError(cache[<<MSFT, "30d">>])

ExampleShape ==
    /\ ~IsError(result)
    /\ Len(result.portfolio_data) = 2
    /\ result.portfolio_data[1].symbol = AAPL
    /\ result.portfolio_data[2].symbol = SPY
    /\ result.portfolio_data[2].signals = 0
    /\ result.portfolio_data[2].classification = "LOW"
    /\ result.portfolio_data[1].risk_score >= 50000
    /\ result.portfolio_data[1].classification \in {"HIGH", "CRITICAL"}
    /\ 2 * 10 * result.portfolio_risk
           = result.portfolio_data[1].risk_score + result.portfolio_data[2].risk_score

\* C8 as stated: AAPL has signals = 2 and SPY has risk score 0.
ExampleAsStated ==
    ExampleScenario =>
        /\ ExampleShape
        /\ result.portfolio_data[1].signals = 2
        /\ result.portfolio_data[2].risk_score = 0

\* C8 as amended: in the example scenario the result has the two entries
\* AAPL then SPY; AAPL has signals = 3 (high volatility, sharp decline,
\* negative momentum), risk score 77.5 and classification CRITICAL; SPY has
\* signals = 0, risk score 1.0 and classification LOW; MSFT is excluded and
\* portfolio_risk is the mean of the two scores, 39.25.
ExampleAmended ==
    ExampleScenario =>
        /\ ExampleShape
        /\ result.portfolio_data[1].signals = 3
        /\ result.portfolio_data[1].risk_score = 77500
        /\ result.portfolio_data[1].classification = "CRITICAL"
        /\ result.portfolio_data[2].risk_score = 1000
        /\ result.portfolio_risk = 3925

ExampleReached == ExampleScenario /\ ~IsError(result)

\* C9: the recommendation agrees with the reported portfolio_risk: Monitor
\* iff it is below 30, Review Quarterly iff it is in [30, 50), Rebalance
\* Immediately iff it is at least 50.
RecommendationMatchesReport ==
    (Returned /\ ~IsError(result)) =>
        /\ (result.recommendation = "Monitor") <=> (result.portfolio_risk < 3000)
        /\ (result.recommendation = "Review Quarterly") <=>
               (3000 <= result.portfolio_risk /\ result.portfolio_risk < 5000)
        /\ (result.recommendation = "Rebalance Immediately") <=>
               (result.portfolio_risk >= 5000)

\* C10: at every point of the loop and in the result
\* high_risk_assets <= crisis_alerts <= number of entries, and an entry
\* without a signal has a score of at most 2 and classification LOW.
CounterOrdering ==
    /\ high_risk_assets <= crisis_alerts
    /\ crisis_alerts <= Len(portfolio_data)
    /\ crisis_alerts = CountAlerts(portfolio_data)
    /\ \A i \in 1..Len(portfolio_data) :
           portfolio_data[i].signals = 0 =>
               /\ portfolio_data[i].volatility <= 2000
               /\ portfolio_data[i].risk_score <= 2000
               /\ portfolio_data[i].classification = "LOW"
    /\ (Returned /\ ~IsError(result)) =>
           /\ result.high_risk_assets <= result.crisis_alerts
           /\ result.crisis_alerts <= result.total_assets

CountersStrictlyOrdered ==
    /\ Returned /\ ~IsError(result)
    /\ result.high_risk_assets < result.crisis_alerts
    /\ result.crisis_alerts < result.total_assets
    /\ \E i \in 1..Len(portfolio_data) : portfolio_data[i].signals = 0

====
